---- MODULE Spec2Model ----
(***************************************************************************)
(* Runtime-config bootstrap of the Cronos x402 frontend: the Redux config  *)
(* slice (loadConfig thunk and its two reducers), the accessor functions   *)
(* that read the store, the useCronosConfig hook, and the provider tree    *)
(* (PrivyProviderWithConfig around ConfigGate) with the landing page Home  *)
(* rendered as the gate's children.                                        *)
(***************************************************************************)
EXTENDS Integers, FiniteSets, Sequences, TLC

(***************************************************************************)
(* Bounds of the model.                                                    *)
(***************************************************************************)
\* how many times the provider tree may be mounted (each mount dispatches)
MaxDispatch == 2

(***************************************************************************)
(* JavaScript values: undefined, strings, numbers, booleans.               *)
(***************************************************************************)
Undefined == <<"undefined">>
Str(x) == <<"string", x>>
Num(k) == <<"number", k>>
Bool(x) == <<"boolean", x>>
\* a reference to the object store.getState().config currently returns
StoreConfig == <<"object", "store.getState().config">>

\* JavaScript truthiness, as used by `!x`, `x || y` and `if (x)`
Truthy(v) ==
  \/ v[1] = "string" /\ v[2] # ""
  \/ v[1] = "number" /\ v[2] # 0
  \/ v[1] = "boolean" /\ v[2]
  \/ v[1] = "object"

\* `x == null`
Nullish(v) == v[1] = "undefined"

\* `a || b`
OrElse(a, b) == IF Truthy(a) THEN a ELSE b

(***************************************************************************)
(* RuntimeConfig and ConfigState.                                          *)
(***************************************************************************)
StringFields ==
  {"cronosApiBase", "cronosFullNode", "cronosRpc", "mosaicApiBaseUrl",
   "cronosLabsUrl", "cronosExplorerUrl", "cronosPositionBrokerUrl"}

NumberFields == {"cronosChainId", "cronosTestNetChainId"}

RuntimeConfig == StringFields \cup NumberFields

\* the value /config.json carries for a field when it is well formed
GoodValue(f) ==
  CASE f = "cronosApiBase" -> Str("https://api.example")
    [] f = "cronosFullNode" -> Str("https://fullnode.example")
    [] f = "cronosRpc" -> Str("https://rpc.example")
    [] f = "cronosChainId" -> Num(25)
    [] f = "cronosTestNetChainId" -> Num(338)
    [] f = "mosaicApiBaseUrl" -> Str("https://mosaic.example")
    [] f = "cronosLabsUrl" -> Str("https://labs.example")
    [] f = "cronosExplorerUrl" -> Str("https://explorer.example")
    [] f = "cronosPositionBrokerUrl" -> Str("https://broker.example")

\* a degraded field of a payload: missing, or present with a falsy value
Degrade(f, how) ==
  IF how = "absent" THEN Undefined
  ELSE IF f \in NumberFields THEN Num(0) ELSE Str("")

EmptyFields == [f \in RuntimeConfig |-> Undefined]

\* the well-formed document (the one of the end-to-end scenario)
FullPayload == [f \in RuntimeConfig |-> GoodValue(f)]

\* the bodies of /config.json the model draws from, by name. The loader does
\* no validation, so besides the well-formed document there are the documents
\* with one field missing or falsy, and the empty document {}
Documents ==
  {<<"full">>, <<"empty">>}
  \cup {<<how, f>> : how \in {"absent", "falsy"}, f \in RuntimeConfig}

\* `(await res.json()) as RuntimeConfig`: the object a document parses to
json(d) ==
  CASE d = <<"full">> -> FullPayload
    [] d = <<"empty">> -> EmptyFields
    [] OTHER -> [FullPayload EXCEPT ![d[2]] = Degrade(d[2], d[1])]

\* const initialState: ConfigState = { loaded: false }
initialState == [loaded |-> FALSE, error |-> Undefined, fields |-> EmptyFields]

(***************************************************************************)
(* loadConfig: the thunk's payload creator, by how the fetch ends.         *)
(***************************************************************************)
\* messages an exception thrown by fetch() may carry ("" = no message)
TransportMessages == {"", "network down"}

\* message of the SyntaxError res.json() throws on a body that is not JSON
ParseMessage == "Unexpected token < in JSON"

\* the ways `fetch("/config.json")` followed by `res.json()` can end
FetchOutcomes ==
  {[how |-> "throws", message |-> m, doc |-> <<"none">>] : m \in TransportMessages}
  \cup {[how |-> "notOk", message |-> "", doc |-> <<"none">>]}
  \cup {[how |-> "badJson", message |-> ParseMessage, doc |-> <<"none">>]}
  \cup {[how |-> "json", message |-> "", doc |-> d] : d \in Documents}

\* faulty variant: loadConfig without `if (!res.ok) throw ...`; the error
\* page's body then fails to parse
loadConfig_IgnoresStatus(o) ==
  CASE o.how = "throws" ->
         [type |-> "rejected", message |-> o.message, payload |-> EmptyFields]
    [] o.how \in {"notOk", "badJson"} ->
         [type |-> "rejected", message |-> ParseMessage, payload |-> EmptyFields]
    [] o.how = "json" ->
         [type |-> "fulfilled", message |-> "", payload |-> json(o.doc)]

\* the action the thunk dispatches when its promise settles
loadConfig(o) ==
  CASE o.how = "throws" ->
         [type |-> "rejected", message |-> o.message, payload |-> EmptyFields]
    [] o.how = "notOk" ->
         [type |-> "rejected", message |-> "Failed to load /config.json",
          payload |-> EmptyFields]
    [] o.how = "badJson" ->
         [type |-> "rejected", message |-> o.message, payload |-> EmptyFields]
    [] o.how = "json" ->
         [type |-> "fulfilled", message |-> "", payload |-> json(o.doc)]

(***************************************************************************)
(* configSlice.extraReducers.                                              *)
(***************************************************************************)
\* faulty variant: the fulfilled case copies the fields but forgets
\* `state.loaded = true`
Fulfilled_ForgetsLoaded(state, payload) ==
  [state EXCEPT !.fields = [f \in RuntimeConfig |-> payload[f]]]

\* faulty variant: the fulfilled case also clears a stored error
Fulfilled_ClearsError(state, payload) ==
  [state EXCEPT !.loaded = TRUE,
                !.error = Undefined,
                !.fields = [f \in RuntimeConfig |-> payload[f]]]

\* builder.addCase(loadConfig.fulfilled, ...)
Fulfilled(state, payload) ==
  [state EXCEPT !.loaded = TRUE,
                !.fields = [f \in RuntimeConfig |-> payload[f]]]

\* faulty variant: the rejected case stores the error but forgets `state.loaded = true`
Rejected_ForgetsLoaded(state, message) ==
  [state EXCEPT !.error = OrElse(Str(message), Str("Config load failed"))]

\* builder.addCase(loadConfig.rejected, ...)
Rejected(state, message) ==
  [state EXCEPT !.loaded = TRUE,
                !.error = OrElse(Str(message), Str("Config load failed"))]

\* the slice reducer
configReducer(state, action) ==
  IF action.type = "fulfilled" THEN Fulfilled(state, action.payload)
  ELSE Rejected(state, action.message)

(***************************************************************************)
(* The accessors of lib/globals.ts, as functions of the state c that       *)
(* store.getState().config returns. An outcome is a returned value or a    *)
(* thrown Error with its message. getConfig and requireConfig return the   *)
(* store's state object itself, not a copy.                                *)
(***************************************************************************)
Return(v) == [kind |-> "return", value |-> v, msg |-> ""]
Throw(m) == [kind |-> "throw", value |-> Undefined, msg |-> m]

getConfig(c) == Return(StoreConfig)
getCronosApiBase(c) == Return(c.fields["cronosApiBase"])
getCronosRpc(c) == Return(c.fields["cronosRpc"])
getCronosChainId(c) == Return(c.fields["cronosChainId"])
getMosaicApiBase(c) == Return(c.fields["mosaicApiBaseUrl"])
getCronosLabsUrl(c) == Return(c.fields["cronosLabsUrl"])
getCronosExplorerUrl(c) == Return(c.fields["cronosExplorerUrl"])
getCronosPositionBrokerUrl(c) == Return(c.fields["cronosPositionBrokerUrl"])
isConfigLoaded(c) == Return(Bool(c.loaded))

requireCronosApiBase(c) ==
  IF ~c.loaded
    THEN Throw("Config not loaded yet. Ensure config is loaded before calling this function.")
  ELSE IF ~Truthy(c.fields["cronosApiBase"])
    THEN Throw("cronosApiBase is not configured")
  ELSE Return(c.fields["cronosApiBase"])

\* faulty variant: requireCronosRpc without its `!config.loaded` guard
requireCronosRpc_NoLoadedGuard(c) ==
  IF ~Truthy(c.fields["cronosRpc"]) THEN Throw("cronosRpc is not configured")
  ELSE Return(c.fields["cronosRpc"])

requireCronosRpc(c) ==
  IF ~c.loaded THEN Throw("Config not loaded yet")
  ELSE IF ~Truthy(c.fields["cronosRpc"]) THEN Throw("cronosRpc is not configured")
  ELSE Return(c.fields["cronosRpc"])

requireCronosChainId(c) ==
  IF ~c.loaded THEN Throw("Config not loaded yet")
  ELSE IF Nullish(c.fields["cronosChainId"]) THEN Throw("cronosChainId is not configured")
  ELSE Return(c.fields["cronosChainId"])

cronosTestNetChainId(c) ==
  IF ~c.loaded THEN Throw("Config not loaded yet")
  ELSE IF Nullish(c.fields["cronosTestNetChainId"])
    THEN Throw("cronosChainId is not configured")
  ELSE Return(c.fields["cronosTestNetChainId"])

\* the fields requireConfig tests before its cast to Required<RuntimeConfig>
requireConfigChecked ==
  {"cronosApiBase", "cronosRpc", "cronosChainId", "cronosTestNetChainId",
   "mosaicApiBaseUrl", "cronosLabsUrl", "cronosExplorerUrl"}

\* faulty variant: requireConfig whose condition lacks `!config.cronosRpc`
requireConfig_SkipsRpc(c) ==
  IF ~c.loaded THEN Throw("Config not loaded yet")
  ELSE IF \E f \in requireConfigChecked \ {"cronosRpc"} : ~Truthy(c.fields[f])
    THEN Throw("Config is incomplete")
  ELSE Return(StoreConfig)

requireConfig(c) ==
  IF ~c.loaded THEN Throw("Config not loaded yet")
  ELSE IF \E f \in requireConfigChecked : ~Truthy(c.fields[f])
    THEN Throw("Config is incomplete")
  ELSE Return(StoreConfig)

PlainAccessors ==
  {"getCronosApiBase", "getCronosRpc", "getCronosChainId", "getMosaicApiBase",
   "getCronosLabsUrl", "getCronosExplorerUrl", "getCronosPositionBrokerUrl"}

FieldRequirers ==
  {"requireCronosApiBase", "requireCronosRpc", "requireCronosChainId",
   "cronosTestNetChainId"}

RequiringAccessors == FieldRequirers \cup {"requireConfig"}

Accessors ==
  PlainAccessors \cup RequiringAccessors \cup {"getConfig", "isConfigLoaded"}

\* a call of the accessor named a in state c
Call(a, c) ==
  CASE a = "getConfig" -> getConfig(c)
    [] a = "getCronosApiBase" -> getCronosApiBase(c)
    [] a = "getCronosRpc" -> getCronosRpc(c)
    [] a = "getCronosChainId" -> getCronosChainId(c)
    [] a = "getMosaicApiBase" -> getMosaicApiBase(c)
    [] a = "getCronosLabsUrl" -> getCronosLabsUrl(c)
    [] a = "getCronosExplorerUrl" -> getCronosExplorerUrl(c)
    [] a = "getCronosPositionBrokerUrl" -> getCronosPositionBrokerUrl(c)
    [] a = "isConfigLoaded" -> isConfigLoaded(c)
    [] a = "requireCronosApiBase" -> requireCronosApiBase(c)
    [] a = "requireCronosRpc" -> requireCronosRpc(c)
    [] a = "requireCronosChainId" -> requireCronosChainId(c)
    [] a = "cronosTestNetChainId" -> cronosTestNetChainId(c)
    [] a = "requireConfig" -> requireConfig(c)

(***************************************************************************)
(* The provider tree: useCronosConfig, PrivyProviderWithConfig, ConfigGate.*)
(***************************************************************************)
\* the hook: every field with its fallback, plus loaded and error
useCronosConfig(c) ==
  [cronosApiBase |-> OrElse(c.fields["cronosApiBase"], Str("")),
   cronosFullNode |-> OrElse(c.fields["cronosFullNode"], Str("")),
   cronosRpc |-> OrElse(c.fields["cronosRpc"], Str("")),
   cronosChainId |-> OrElse(c.fields["cronosChainId"], Num(25)),
   cronosTestNetChainId |-> OrElse(c.fields["cronosTestNetChainId"], Num(250)),
   mosaicApiBaseUrl |-> OrElse(c.fields["mosaicApiBaseUrl"], Str("")),
   cronosLabsUrl |-> OrElse(c.fields["cronosLabsUrl"], Str("")),
   cronosExplorerUrl |-> OrElse(c.fields["cronosExplorerUrl"], Str("")),
   cronosPositionBrokerUrl |-> OrElse(c.fields["cronosPositionBrokerUrl"], Str("")),
   loaded |-> c.loaded,
   error |-> c.error]

\* supportedChains[0] as PrivyProviderWithConfig hands it to PrivyProvider
PrivyProviderWithConfig(c) ==
  LET cfg == useCronosConfig(c)
  IN [rendered |-> TRUE,
      id |-> cfg.cronosChainId,
      rpcUrl |-> cfg.cronosLabsUrl,
      explorerUrl |-> cfg.cronosExplorerUrl]

\* PrivyProvider is not rendered
NoChain ==
  [rendered |-> FALSE, id |-> Undefined, rpcUrl |-> Undefined, explorerUrl |-> Undefined]

\* faulty variant: ConfigGate without its `if (error)` branch
ConfigGate_IgnoresError(c) ==
  IF ~c.loaded THEN [view |-> "null", text |-> ""]
  ELSE [view |-> "children", text |-> ""]

\* what ConfigGate returns from its render
ConfigGate(c) ==
  IF ~c.loaded THEN [view |-> "null", text |-> ""]
  ELSE IF Truthy(c.error) THEN [view |-> "error", text |-> c.error[2]]
  ELSE [view |-> "children", text |-> ""]

\* ConfigGate is not mounted
NoGate == [view |-> "unmounted", text |-> ""]

(***************************************************************************)
(* The landing page (app/page.tsx), rendered as the children of ConfigGate.*)
(***************************************************************************)
\* what usePrivy() may report: { ready, authenticated }
PrivyStates == [ready : BOOLEAN, authenticated : BOOLEAN]

\* usePrivy() of a PrivyProvider that has just mounted, or of none
PrivyIdle == [ready |-> FALSE, authenticated |-> FALSE]

\* faulty variant: the effect tests `authenticated` without `ready`
HomeRedirects_IgnoresReady(p) == p.authenticated

\* the condition under which Home's effect calls router.push("/chat")
HomeRedirects(p) == p.ready /\ p.authenticated

\* what Home returns from its render: the loading placeholder while the auth
\* provider is not ready, else the landing view with its Connect Wallet button
Home(p) ==
  IF ~p.ready THEN [view |-> "loading", login |-> FALSE]
  ELSE [view |-> "landing", login |-> TRUE]

\* Home is not rendered
NoHome == [view |-> "none", login |-> FALSE]

VARIABLES
  config,      \* store.getState().config
  pending,     \* loadConfig thunks dispatched and not yet settled
  dispatched,  \* loadConfig dispatches so far
  mounted,     \* the provider tree is mounted
  privyChain,  \* supportedChains[0] last handed to PrivyProvider
  gateOut,     \* what ConfigGate last rendered
  lastFetch,   \* how the fetch of the latest settled loadConfig thunk ended
  lastCall,    \* the latest accessor call since the store last changed
  privy,       \* what usePrivy() reports
  route,       \* the route the router is on
  home         \* what Home last rendered

vars ==
  <<config, pending, dispatched, mounted, privyChain, gateOut, lastFetch, lastCall,
    privy, route, home>>

(***************************************************************************)
(* The state machine.                                                      *)
(***************************************************************************)
NoFetch == [how |-> "none", message |-> "", doc |-> <<"none">>]

NoCall == [name |-> "none", res |-> Return(Undefined)]

\* the commit of the gate's children on route r with the gate's output g and
\* usePrivy() reporting p: Home renders when the gate shows its children on
\* "/", and its effect then pushes "/chat" for a ready, authenticated user
Children(g, p, r) ==
  IF g.view = "children" /\ r = "/"
    THEN IF HomeRedirects(p)
           THEN route' = "/chat" /\ home' = NoHome
           ELSE route' = r /\ home' = Home(p)
    ELSE route' = r /\ home' = NoHome

Init ==
  /\ config = initialState
  /\ pending = 0
  /\ dispatched = 0
  /\ mounted = FALSE
  /\ privyChain = NoChain
  /\ gateOut = NoGate
  /\ lastFetch = NoFetch
  /\ lastCall = NoCall
  /\ privy = PrivyIdle
  /\ route = "/"
  /\ home = NoHome

\* <Providers> mounts: PrivyProviderWithConfig and ConfigGate render against
\* the current store, then ConfigGate's effect dispatches loadConfig
Mount ==
  /\ ~mounted
  /\ dispatched < MaxDispatch
  /\ mounted' = TRUE
  /\ privyChain' = PrivyProviderWithConfig(config)
  /\ gateOut' = ConfigGate(config)
  /\ pending' = pending + 1
  /\ dispatched' = dispatched + 1
  /\ privy' = PrivyIdle
  /\ Children(ConfigGate(config), PrivyIdle, route)
  /\ UNCHANGED <<config, lastFetch, lastCall>>

\* the tree unmounts; the effect has no cleanup, so a fetch in flight goes on
Unmount ==
  /\ mounted
  /\ mounted' = FALSE
  /\ privyChain' = NoChain
  /\ gateOut' = NoGate
  /\ privy' = PrivyIdle
  /\ home' = NoHome
  /\ UNCHANGED <<config, pending, dispatched, lastFetch, lastCall, route>>

\* a re-render of the mounted tree: the effect's dependency [dispatch] is
\* unchanged, so nothing is dispatched
Rerender ==
  /\ mounted
  /\ privyChain' = PrivyProviderWithConfig(config)
  /\ gateOut' = ConfigGate(config)
  /\ Children(ConfigGate(config), privy, route)
  /\ UNCHANGED <<config, pending, dispatched, mounted, lastFetch, lastCall, privy>>

\* a loadConfig thunk settles: its fulfilled or rejected action is reduced
\* into the store, and the store's subscribers (useSelector) re-render
Settle ==
  /\ pending > 0
  /\ \E o \in FetchOutcomes :
       LET action == loadConfig(o)
           next == configReducer(config, action)
       IN /\ config' = next
          /\ lastFetch' = o
          /\ privyChain' = IF mounted THEN PrivyProviderWithConfig(next) ELSE NoChain
          /\ gateOut' = IF mounted THEN ConfigGate(next) ELSE NoGate
          /\ Children(IF mounted THEN ConfigGate(next) ELSE NoGate, privy, route)
  /\ pending' = pending - 1
  /\ lastCall' = NoCall
  /\ UNCHANGED <<dispatched, mounted, privy>>

\* faulty variant: an accessor that writes to the store it reads
CallAccessor_WritesStore ==
  /\ \E a \in Accessors :
       lastCall' = [name |-> a, res |-> Call(a, config)]
  /\ config' = [config EXCEPT !.loaded = TRUE]
  /\ UNCHANGED <<pending, dispatched, mounted, privyChain, gateOut, lastFetch,
                 privy, route, home>>

\* some code calls an accessor of lib/globals.ts
CallAccessor ==
  /\ \E a \in Accessors :
       lastCall' = [name |-> a, res |-> Call(a, config)]
  /\ UNCHANGED <<config, pending, dispatched, mounted, privyChain, gateOut, lastFetch,
                 privy, route, home>>

\* the mounted PrivyProvider reports a new state (initialisation finished, a
\* session restored or ended); Home, if rendered, re-renders and its effect
\* runs again because [ready, authenticated] changed
PrivyUpdate ==
  /\ mounted
  /\ \E p \in PrivyStates :
       /\ p # privy
       /\ privy.ready => p.ready
       /\ privy' = p
       /\ Children(gateOut, p, route)
  /\ UNCHANGED <<config, pending, dispatched, mounted, privyChain, gateOut, lastFetch,
                 lastCall>>

\* the user presses Connect Wallet (handleLogin -> login()) and signs in
Login ==
  /\ home.login
  /\ privy' = [ready |-> TRUE, authenticated |-> TRUE]
  /\ Children(gateOut, [ready |-> TRUE, authenticated |-> TRUE], route)
  /\ UNCHANGED <<config, pending, dispatched, mounted, privyChain, gateOut, lastFetch,
                 lastCall>>

\* the user returns from "/chat" to "/"; Home mounts under an open gate and
\* its effect runs
Navigate ==
  /\ route = "/chat"
  /\ Children(gateOut, privy, "/")
  /\ UNCHANGED <<config, pending, dispatched, mounted, privyChain, gateOut, lastFetch,
                 lastCall, privy>>

Next ==
  \/ Mount \/ Unmount \/ Rerender \/ Settle \/ CallAccessor
  \/ PrivyUpdate \/ Login \/ Navigate

Spec == Init /\ [][Next]_vars

\* the steps that can change the store or the rendered tree: all but the
\* accessor calls, which only read the store
LoadNext ==
  \/ Mount \/ Unmount \/ Rerender \/ Settle
  \/ PrivyUpdate \/ Login \/ Navigate

\* the loading session with every issued fetch eventually settling: there is
\* no cancellation, and the runtime delivers each completion to the event loop
LiveSpec == Init /\ [][LoadNext]_vars /\ WF_vars(Settle)

(***************************************************************************)
(* Vocabulary of the properties.                                           *)
(***************************************************************************)
\* `error` is present in the store
HasError == config.error # Undefined

\* every RuntimeConfig field is present in the store
AllPresent == \A f \in RuntimeConfig : config.fields[f] # Undefined

\* the terminal states of the store's state machine
LoadedOk == config.loaded /\ AllPresent /\ ~HasError
LoadedError == config.loaded /\ HasError

\* loadConfig thunks that have settled so far
settled == dispatched - pending

\* the two wordings of the config-not-loaded error
ConfigNotLoadedMessages ==
  {"Config not loaded yet",
   "Config not loaded yet. Ensure config is loaded before calling this function."}

(***************************************************************************)
(* C1..C10.                                                                *)
(***************************************************************************)

\* C1: in every reachable state of the store, either loaded is false and
\* error is absent, or loaded is true with all nine RuntimeConfig fields
\* present and error absent, or loaded is true and error is present.
C1_StoreShape ==
  \/ ~config.loaded /\ ~HasError
  \/ config.loaded /\ AllPresent /\ ~HasError
  \/ config.loaded /\ HasError

\* C2: the terminal states are absorbing: no step takes LOADED_OK to a state
\* with error present, and no step takes LOADED_ERROR to a state with error
\* absent.
C2_TerminalAbsorbing ==
  [][/\ LoadedOk => ~HasError'
     /\ LoadedError => HasError']_vars

\* C3: PrivyProvider is handed config-derived values only in states where the
\* store is loaded with no error; nothing config-dependent is initialised
\* while loaded is false.
C3_InitAfterLoad ==
  privyChain.rendered => config.loaded /\ ~HasError

\* C4: over any sequence of mounts, re-renders and remounts loadConfig is
\* dispatched exactly once, so at most one completion mutates the store.
C4_DispatchedOnce ==
  /\ dispatched <= 1
  /\ settled <= 1
  /\ mounted => dispatched = 1

\* C5: while the gate is mounted its output is decided by the store: nothing
\* (and no error) while loaded is false, the error and not the children when
\* loaded with an error, the children when loaded without an error; so the
\* children are rendered iff loaded and error absent. A gate that has opened
\* never closes and reopens: within a mount the children give way only to
\* the error, the error view stays, and the store's error is never cleared.
C5_GateView ==
  /\ mounted /\ ~config.loaded => gateOut = [view |-> "null", text |-> ""]
  /\ mounted /\ config.loaded /\ HasError =>
       gateOut = [view |-> "error", text |-> config.error[2]]
  /\ mounted /\ config.loaded /\ ~HasError => gateOut = [view |-> "children", text |-> ""]
  /\ gateOut.view = "children" <=> mounted /\ config.loaded /\ ~HasError
  /\ mounted <=> gateOut.view # "unmounted"

C5_GateStep ==
  /\ gateOut.view = "children" /\ mounted' => gateOut'.view \in {"children", "error"}
  /\ gateOut.view = "error" /\ mounted' => gateOut'.view = "error"
  /\ HasError => HasError'

C5_Gate == []C5_GateView /\ [][C5_GateStep]_vars

\* C5 witness: the gate was open and a later rejected completion closed it
C5_Witness ==
  /\ mounted
  /\ gateOut.view = "error"
  /\ AllPresent
  /\ settled = 2

\* C6: loaded is false until the first loadConfig completion, true from then
\* on whether that completion was fulfilled or rejected, and never reverts.
C6_LoadedOnce ==
  /\ [](config.loaded <=> settled > 0)
  /\ [][config.loaded => config'.loaded]_vars

\* C6 witness: loaded after a rejected first completion, a second completion
\* has arrived too
C6_Witness ==
  /\ config.loaded
  /\ settled = 2
  /\ HasError
  /\ lastFetch.how = "json"

\* C7: error is mutually exclusive with a fully populated RuntimeConfig.
C7_ErrorExclusive == ~(HasError /\ AllPresent)

\* C8: a call made while loaded is false returns an absent value from every
\* plain accessor, false from isConfigLoaded, and throws the config-not-loaded
\* error from every requiring accessor.
C8_UnloadedCalls ==
  ~config.loaded =>
    /\ lastCall.name \in PlainAccessors => lastCall.res = Return(Undefined)
    /\ lastCall.name = "isConfigLoaded" => lastCall.res = Return(Bool(FALSE))
    /\ lastCall.name \in RequiringAccessors =>
         /\ lastCall.res.kind = "throw"
         /\ lastCall.res.msg \in ConfigNotLoadedMessages

\* C8 witness: a requiring accessor was called while a fetch was in flight
C8_Witness ==
  /\ ~config.loaded
  /\ pending > 0
  /\ lastCall.name = "requireCronosRpc"
  /\ lastCall.res.kind = "throw"

\* the field a single-field requiring accessor reads
FieldOf(a) ==
  CASE a = "requireCronosApiBase" -> "cronosApiBase"
    [] a = "requireCronosRpc" -> "cronosRpc"
    [] a = "requireCronosChainId" -> "cronosChainId"
    [] a = "cronosTestNetChainId" -> "cronosTestNetChainId"

\* the field-missing error that names field f
FieldMissingMessage(f) ==
  CASE f = "cronosApiBase" -> "cronosApiBase is not configured"
    [] f = "cronosRpc" -> "cronosRpc is not configured"
    [] f = "cronosChainId" -> "cronosChainId is not configured"
    [] f = "cronosTestNetChainId" -> "cronosTestNetChainId is not configured"

\* C9: with loaded true, a single-field requiring accessor throws the
\* field-missing error naming its own field when that field is absent (for a
\* URL: undefined or empty), and otherwise returns the stored value unchanged.
C9_FieldRequirers ==
  config.loaded /\ lastCall.name \in FieldRequirers =>
    LET f == FieldOf(lastCall.name)
        v == config.fields[f]
    IN IF v = Undefined \/ v = Str("")
         THEN lastCall.res = Throw(FieldMissingMessage(f))
         ELSE lastCall.res = Return(v)

\* C10: with loaded true, requireConfig throws the config-incomplete error if
\* any of the nine RuntimeConfig fields is falsy, and otherwise returns the
\* record with every field populated.
C10_RequireConfig ==
  config.loaded /\ lastCall.name = "requireConfig" =>
    IF \E f \in RuntimeConfig : ~Truthy(config.fields[f])
      THEN lastCall.res = Throw("Config is incomplete")
      ELSE lastCall.res = Return(StoreConfig)

(***************************************************************************)
(* C11..C19.                                                               *)
(***************************************************************************)

\* the message of `new Error("Failed to load /config.json")`
NotOkMessage == "Failed to load /config.json"

\* the fallback of the rejected reducer
FallbackMessage == "Config load failed"

\* C11: after a fulfilled completion with the full payload p, isConfigLoaded
\* returns true, error is absent, every single-field requiring accessor
\* returns p's field, requireConfig returns the record holding p's nine
\* fields, and the mounted gate is open.
C11_RoundTrip ==
  lastFetch = [how |-> "json", message |-> "", doc |-> <<"full">>] =>
    /\ config.loaded
    /\ ~HasError
    /\ config.fields = FullPayload
    /\ lastCall.name = "isConfigLoaded" => lastCall.res = Return(Bool(TRUE))
    /\ lastCall.name \in FieldRequirers =>
         lastCall.res = Return(FullPayload[FieldOf(lastCall.name)])
    /\ lastCall.name = "requireConfig" => lastCall.res = Return(StoreConfig)
    /\ mounted => gateOut.view = "children"

\* the "<field> is not configured" errors of the single-field accessors
NotConfiguredMessages ==
  {"cronosApiBase is not configured", "cronosRpc is not configured",
   "cronosChainId is not configured"}

\* C12: after a completion that failed with an exception carrying message m,
\* loaded is true and error is m (the fallback when m is empty),
\* isConfigLoaded returns true, and every requiring accessor throws a
\* not-configured or incomplete error, not the config-not-loaded error.
C12_FailureCapture ==
  lastFetch.how \in {"throws", "badJson"} =>
    /\ config.loaded
    /\ config.error = Str(IF lastFetch.message = "" THEN FallbackMessage
                          ELSE lastFetch.message)
    /\ lastCall.name = "isConfigLoaded" => lastCall.res = Return(Bool(TRUE))
    /\ lastCall.name \in FieldRequirers =>
         /\ lastCall.res.kind = "throw"
         /\ lastCall.res.msg \in NotConfiguredMessages
    /\ lastCall.name = "requireConfig" => lastCall.res = Throw("Config is incomplete")

\* C13: with every issued fetch eventually settling, a dispatched loadConfig
\* leads to loaded = true, and a mounted gate showing nothing leads to a gate
\* that shows the children or the error (or to the tree being unmounted).
C13_EventuallyLoaded ==
  /\ (dispatched > 0) ~> config.loaded
  /\ (gateOut.view = "null") ~> (gateOut.view \in {"children", "error", "unmounted"})
  /\ [](pending = 0 /\ mounted => gateOut.view \in {"children", "error"})

\* C13 witness: the only dispatched fetch has settled, the load failed, and
\* the gate has left its blank state for the error
C13_Witness ==
  /\ dispatched = 1
  /\ pending = 0
  /\ mounted
  /\ gateOut.view = "error"

\* C14: an accessor call, returning or throwing, leaves the config state as
\* it was; the config state changes only in a step in which a loadConfig
\* thunk settles, and into what one of the two reducers makes of it.
C14_PureReads ==
  [][/\ (lastCall' # lastCall /\ lastCall'.name # "none") => config' = config
     /\ config' # config =>
          /\ pending' = pending - 1
          /\ \E o \in FetchOutcomes : config' = configReducer(config, loadConfig(o))]_vars

\* C14 witness: requireConfig was called on a loaded store and threw
C14_Witness ==
  /\ config.loaded
  /\ ~HasError
  /\ lastCall.name = "requireConfig"
  /\ lastCall.res.kind = "throw"

\* C15 as claimed: a non-success HTTP status stores the error message
\* "Failed to load configuration".
C15_AsClaimed ==
  lastFetch.how = "notOk" => config.error = Str("Failed to load configuration")

\* C15 as amended: a non-success HTTP status is a failed load, and the error
\* stored, and shown by the mounted gate, is "Failed to load /config.json".
C15_NotOkMessage ==
  lastFetch.how = "notOk" =>
    /\ config.loaded
    /\ config.error = Str(NotOkMessage)
    /\ mounted => gateOut = [view |-> "error", text |-> NotOkMessage]

\* C15 witness: the fetch answered with a non-success status under a mounted gate
C15_Witness ==
  /\ lastFetch.how = "notOk"
  /\ mounted
  /\ gateOut.view = "error"

\* C16: whenever the gate is open, the chain handed to PrivyProvider has the
\* store's cronosChainId as id, the store's cronosRpc as RPC URL and the
\* store's cronosExplorerUrl as explorer URL.
C16_ChainFromConfig ==
  gateOut.view = "children" =>
    /\ privyChain.id = config.fields["cronosChainId"]
    /\ privyChain.rpcUrl = config.fields["cronosRpc"]
    /\ privyChain.explorerUrl = config.fields["cronosExplorerUrl"]

\* C17: a rejected completion sets loaded and error and leaves every
\* RuntimeConfig field as it was; a fulfilled completion sets loaded,
\* overwrites all nine fields with the payload's and leaves error as it was.
C17_CompletionFrame ==
  [][pending' < pending =>
       LET action == loadConfig(lastFetch')
       IN /\ config'.loaded
          /\ action.type = "rejected" =>
               /\ config'.fields = config.fields
               /\ config'.error \in {Str(action.message), Str(FallbackMessage)}
               /\ HasError'
          /\ action.type = "fulfilled" =>
               /\ config'.fields = action.payload
               /\ config'.error = config.error]_vars

\* C17 witness: a second, fulfilled completion overwrote the fields and left
\* the first completion's error in place
C17_Witness ==
  /\ settled = 2
  /\ lastFetch = [how |-> "json", message |-> "", doc |-> <<"absent", "cronosRpc">>]
  /\ config.error = Str("network down")
  /\ config.fields["cronosRpc"] = Undefined

\* C18: in a state where requireConfig succeeds, every single-field requiring
\* accessor succeeds too, with the value of its field in the record
\* requireConfig returned (the store's state object).
C18_RequireAgree ==
  requireConfig(config) = Return(StoreConfig) =>
    \A a \in FieldRequirers : Call(a, config) = Return(config.fields[FieldOf(a)])

\* C18 witness: requireConfig has returned, on a store that lacks a field it
\* does not test
C18_Witness ==
  /\ lastCall.name = "requireConfig"
  /\ lastCall.res = Return(StoreConfig)
  /\ config.fields["cronosFullNode"] = Undefined

\* C19: Home pushes "/chat" only for a ready, authenticated user and does so
\* whenever such a state is entered with Home rendered, so Home never stays
\* rendered for such a user; while ready is false Home shows only the loading
\* placeholder, without the login button.
C19_HomeView ==
  /\ home.view # "none" => gateOut.view = "children" /\ route = "/"
  /\ home.view # "none" /\ ~privy.ready => home = [view |-> "loading", login |-> FALSE]
  /\ home.view # "none" /\ privy.ready => home = [view |-> "landing", login |-> TRUE]
  /\ ~(gateOut.view = "children" /\ route = "/" /\ privy.ready /\ privy.authenticated)
  /\ gateOut.view = "children" /\ route = "/" => home.view # "none"

C19_HomeStep ==
  /\ route = "/" /\ route' = "/chat" =>
       privy'.ready /\ privy'.authenticated /\ gateOut'.view = "children"
  /\ route = "/" /\ gateOut'.view = "children" /\ privy'.ready /\ privy'.authenticated =>
       route' = "/chat"

C19_HomeRedirect == []C19_HomeView /\ [][C19_HomeStep]_vars

\* C19 witness: Home has redirected a user who signed in, under an open gate
C19_Witness ==
  /\ route = "/chat"
  /\ gateOut.view = "children"
  /\ privy.ready
  /\ privy.authenticated

====
